---- MODULE Spec2Model ----
(***************************************************************************)
(* Ledger state machine of the claimable token contract                    *)
(* (src/src/token.cpp, src/include/token.hpp).                             *)
(*                                                                         *)
(* Every contract action runs as one atomic transaction of the host: a     *)
(* failed check() or require_auth() aborts the action and the host rolls   *)
(* back every table write the action made.  A handler is therefore an      *)
(* operator from the ledger before the action to either an aborted         *)
(* context (ok = FALSE) or the ledger after the action; the writes a       *)
(* handler makes before a failing check are visible in the aborted         *)
(* context (field stat / accounts) and are dropped by Commit.              *)
(***************************************************************************)
EXTENDS Integers, FiniteSets, Sequences, TLC

\* ------------------------------------------------------------------ bounds
\* largest amount an input asset carries
MaxAmount == 2

\* ------------------------------------------------------- program constants
\* memo.size() <= 256
MaxMemo == 256

\* ------------------------------------------------------------ input domains
\* _self, the account the contract is deployed on
Self == "token"
\* accounts that exist on the chain (is_account)
Accounts == {"token", "alice", "bob"}
\* names an action may be called with; "nobody" is not an existing account
Names == Accounts \cup {"nobody"}
Codes == {"TOK"}
\* the symbol create is called with (the two precisions are symmetric: the
\* other one reaches every later action as the mismatching precision)
Tok == [code |-> "TOK", precision |-> 4]
\* the same code with another precision
TokOther == [code |-> "TOK", precision |-> 2]
\* a symbol whose code is not made of A-Z (symbol::is_valid fails)
BadSymbol == [code |-> "", precision |-> 0]
Symbols == {Tok, TokOther, BadSymbol}
Amounts == 0..MaxAmount
\* assets an action is called with: every amount of Tok, and one asset of
\* each other symbol
Quantities ==
    [amount : Amounts, symbol : {Tok}]
        \cup [amount : {1}, symbol : {TokOther, BadSymbol}]
\* (quantity, memo.size()) pairs: every quantity with a memo that fits, and
\* one quantity with a memo that is too long
Payloads ==
    {<<q, MaxMemo>> : q \in Quantities}
        \cup {<<[amount |-> 1, symbol |-> Tok], MaxMemo + 1>>}
\* the authorizations an action is pushed with
AuthSets == {{p} : p \in Accounts}

\* ----------------------------------------------------------------- tables
\* absent row of a multi_index table
NoRow == [present |-> FALSE]

\* TABLE currency_stats, with the billed payer the host keeps for the row
currency_stats(supply, max_supply, issuer) ==
    [present |-> TRUE, supply |-> supply, max_supply |-> max_supply,
     issuer |-> issuer]

\* TABLE account, with the billed payer the host keeps for the row
account(balance, claimed, payer) ==
    [present |-> TRUE, balance |-> balance, claimed |-> claimed,
     payer |-> payer]

asset(amount, symbol) == [amount |-> amount, symbol |-> symbol]

VARIABLES
    stat,       \* stats table: symbol code -> currency_stats row or NoRow
    accounts,   \* accounts tables: scope (owner) -> symbol code -> row
    last        \* name of the action committed last

vars == <<stat, accounts, last>>

\* the ledger as a value
Ledger == [ok |-> TRUE, stat |-> stat, accounts |-> accounts]

\* a failed check: the context is aborted, keeping the writes made so far
Abort(ctx) == [ctx EXCEPT !.ok = FALSE]

\* symbol::is_valid
sym_is_valid(sym) == sym.code \in Codes

\* asset::is_valid (amounts of the model are far below asset::max_amount)
asset_is_valid(a) == sym_is_valid(a.symbol)

require_auth(auth, p) == p \in auth

is_account(n) == n \in Accounts

\* ------------------------------------------------------- table primitives
\* statstable.find( sym.code().raw() )
find_stat(ctx, code) == IF code \in Codes THEN ctx.stat[code] ELSE NoRow

\* accounts( _self, owner.value ).find( sym_code_raw )
find_account(ctx, owner, code) ==
    IF owner \in Accounts /\ code \in Codes
    THEN ctx.accounts[owner][code] ELSE NoRow

\* emplace / modify / erase of a row of the stats table
put_stat(ctx, code, row) == [ctx EXCEPT !.stat[code] = row]

\* emplace / modify / erase of a row of an accounts table
put_account(ctx, owner, code, row) ==
    [ctx EXCEPT !.accounts[owner][code] = row]

\* get_supply: fails (ok = FALSE) when the registry entry is absent
get_supply(ctx, code) ==
    LET st == find_stat(ctx, code)
    IN  IF st.present THEN [ok |-> TRUE, value |-> st.supply]
        ELSE [ok |-> FALSE]

\* get_balance: fails (ok = FALSE) when the balance record is absent
get_balance(ctx, owner, code) ==
    LET ac == find_account(ctx, owner, code)
    IN  IF ac.present THEN [ok |-> TRUE, value |-> ac.balance]
        ELSE [ok |-> FALSE]

\* ------------------------------------------------------ debit and credit
\* modify( from, owner, ... ) bills the row to owner from then on; the host's
\* own demand that a newly billed payer authorizes the action is not part of
\* the contract and is left out, so the model admits every run of the chain
\* sub_balance that subtracts in place even when the balance becomes zero
sub_balance_keeps_zero(ctx, owner, value) ==
    LET code == value.symbol.code
        from == find_account(ctx, owner, code)
    IN  IF ~from.present THEN Abort(ctx)
        ELSE IF ~(from.balance.amount >= value.amount)
             THEN Abort(ctx)
        ELSE IF from.balance.symbol # value.symbol
             THEN Abort(ctx)
        ELSE put_account(ctx, owner, code,
                 account(asset(from.balance.amount - value.amount,
                               from.balance.symbol),
                         from.claimed, owner))

\* sub_balance without the "overdrawn balance" check
sub_balance_unchecked(ctx, owner, value) ==
    LET code == value.symbol.code
        from == find_account(ctx, owner, code)
    IN  IF ~from.present THEN Abort(ctx)
        ELSE IF from.balance.amount = value.amount
             THEN put_account(ctx, owner, code, NoRow)
        ELSE IF from.balance.symbol # value.symbol
             THEN Abort(ctx)
        ELSE put_account(ctx, owner, code,
                 account(asset(from.balance.amount - value.amount,
                               from.balance.symbol),
                         from.claimed, owner))

sub_balance(ctx, owner, value) ==
    LET code == value.symbol.code
        from == find_account(ctx, owner, code)
    IN  IF ~from.present THEN Abort(ctx)                \* no balance object found
        ELSE IF ~(from.balance.amount >= value.amount)
             THEN Abort(ctx)                            \* overdrawn balance
        ELSE IF from.balance.amount = value.amount
             THEN put_account(ctx, owner, code, NoRow)
        ELSE IF from.balance.symbol # value.symbol
             THEN Abort(ctx)                            \* asset -= : symbol differs
        ELSE put_account(ctx, owner, code,
                 account(asset(from.balance.amount - value.amount,
                               from.balance.symbol),
                         from.claimed, owner))

add_balance(ctx, owner, value, ram_payer, claimed) ==
    LET code == value.symbol.code
        to == find_account(ctx, owner, code)
    IN  IF ~to.present
        THEN put_account(ctx, owner, code, account(value, claimed, ram_payer))
        ELSE IF to.balance.symbol # value.symbol
             THEN Abort(ctx)                            \* asset += : symbol differs
        ELSE put_account(ctx, owner, code,
                 account(asset(to.balance.amount + value.amount,
                               to.balance.symbol),
                         to.claimed, to.payer))

\* ------------------------------------------------------------- claiming
\* do_claim that sets the flag in place, leaving the row with its payer
do_claim_in_place(ctx, auth, owner, sym, payer) ==
    LET existing == find_account(ctx, owner, sym.code)
    IN  IF ~sym_is_valid(sym) THEN Abort(ctx)
        ELSE IF ~require_auth(auth, payer) THEN Abort(ctx)
        ELSE IF ~existing.present THEN Abort(ctx)
        ELSE IF ~existing.claimed
             THEN put_account(ctx, owner, sym.code,
                      account(existing.balance, TRUE, existing.payer))
        ELSE ctx

\* do_claim that re-creates the row whether or not it is claimed
do_claim_always(ctx, auth, owner, sym, payer) ==
    LET existing == find_account(ctx, owner, sym.code)
    IN  IF ~sym_is_valid(sym) THEN Abort(ctx)
        ELSE IF ~require_auth(auth, payer) THEN Abort(ctx)
        ELSE IF ~existing.present THEN Abort(ctx)
        ELSE put_account(ctx, owner, sym.code,
                 account(existing.balance, TRUE, payer))

do_claim(ctx, auth, owner, sym, payer) ==
    LET existing == find_account(ctx, owner, sym.code)
    IN  IF ~sym_is_valid(sym) THEN Abort(ctx)
        ELSE IF ~require_auth(auth, payer) THEN Abort(ctx)
        ELSE IF ~existing.present THEN Abort(ctx)       \* no balance object found
        ELSE IF ~existing.claimed
             THEN LET value == existing.balance
                      erased == put_account(ctx, owner, sym.code, NoRow)
                      replace == find_account(erased, owner, sym.code)
                  IN  IF replace.present THEN Abort(erased)
                      ELSE put_account(erased, owner, sym.code,
                                       account(value, TRUE, payer))
        ELSE ctx

claim(ctx, auth, owner, sym) == do_claim(ctx, auth, owner, sym, owner)

\* ------------------------------------------------------------- registry
\* create without the "token with symbol already exists" check
create_overwrites(ctx, auth, issuer, maximum_supply) ==
    LET sym == maximum_supply.symbol
    IN  IF ~require_auth(auth, Self) THEN Abort(ctx)
        ELSE IF ~sym_is_valid(sym) THEN Abort(ctx)
        ELSE IF ~asset_is_valid(maximum_supply) THEN Abort(ctx)
        ELSE IF ~(maximum_supply.amount > 0) THEN Abort(ctx)
        ELSE put_stat(ctx, sym.code,
                 currency_stats(asset(0, maximum_supply.symbol),
                                maximum_supply, issuer))

create(ctx, auth, issuer, maximum_supply) ==
    LET sym == maximum_supply.symbol
        existing == find_stat(ctx, sym.code)
    IN  IF ~require_auth(auth, Self) THEN Abort(ctx)
        ELSE IF ~sym_is_valid(sym) THEN Abort(ctx)
        ELSE IF ~asset_is_valid(maximum_supply) THEN Abort(ctx)
        ELSE IF ~(maximum_supply.amount > 0) THEN Abort(ctx)
        ELSE IF existing.present THEN Abort(ctx)        \* already exists
        ELSE put_stat(ctx, sym.code,
                 currency_stats(asset(0, maximum_supply.symbol),
                                maximum_supply, issuer))

\* update without the "max-supply cannot be less than available supply" check
update_no_floor(ctx, auth, issuer, maximum_supply) ==
    LET sym == maximum_supply.symbol
        st == find_stat(ctx, sym.code)
    IN  IF ~require_auth(auth, Self) THEN Abort(ctx)
        ELSE IF ~sym_is_valid(sym) THEN Abort(ctx)
        ELSE IF ~asset_is_valid(maximum_supply) THEN Abort(ctx)
        ELSE IF ~(maximum_supply.amount > 0) THEN Abort(ctx)
        ELSE IF ~st.present THEN Abort(ctx)
        ELSE IF ~(maximum_supply.symbol = st.supply.symbol) THEN Abort(ctx)
        ELSE put_stat(ctx, sym.code,
                 currency_stats(st.supply, maximum_supply, issuer))

update(ctx, auth, issuer, maximum_supply) ==
    LET sym == maximum_supply.symbol
        st == find_stat(ctx, sym.code)
    IN  IF ~require_auth(auth, Self) THEN Abort(ctx)
        ELSE IF ~sym_is_valid(sym) THEN Abort(ctx)
        ELSE IF ~asset_is_valid(maximum_supply) THEN Abort(ctx)
        ELSE IF ~(maximum_supply.amount > 0) THEN Abort(ctx)
        ELSE IF ~st.present THEN Abort(ctx)
        ELSE IF ~(st.supply.amount <= maximum_supply.amount) THEN Abort(ctx)
        ELSE IF ~(maximum_supply.symbol = st.supply.symbol) THEN Abort(ctx)
        ELSE put_stat(ctx, sym.code,
                 currency_stats(st.supply, maximum_supply, issuer))

\* issue without the "tokens can only be issued to issuer account" check,
\* crediting `to`
issue_to_anyone(ctx, auth, to, quantity, memo) ==
    LET sym == quantity.symbol
        st == find_stat(ctx, sym.code)
    IN  IF ~sym_is_valid(sym) THEN Abort(ctx)
        ELSE IF ~(memo <= MaxMemo) THEN Abort(ctx)
        ELSE IF ~st.present THEN Abort(ctx)
        ELSE IF ~require_auth(auth, st.issuer) THEN Abort(ctx)
        ELSE IF ~asset_is_valid(quantity) THEN Abort(ctx)
        ELSE IF ~(quantity.amount > 0) THEN Abort(ctx)
        ELSE IF ~(quantity.symbol = st.supply.symbol) THEN Abort(ctx)
        ELSE IF ~(quantity.amount <= st.max_supply.amount - st.supply.amount)
             THEN Abort(ctx)
        ELSE LET modified ==
                     put_stat(ctx, sym.code,
                         currency_stats(asset(st.supply.amount + quantity.amount,
                                              st.supply.symbol),
                                        st.max_supply, st.issuer))
             IN  add_balance(modified, to, quantity, st.issuer, TRUE)

issue(ctx, auth, to, quantity, memo) ==
    LET sym == quantity.symbol
        st == find_stat(ctx, sym.code)
    IN  IF ~sym_is_valid(sym) THEN Abort(ctx)
        ELSE IF ~(memo <= MaxMemo) THEN Abort(ctx)
        ELSE IF ~st.present THEN Abort(ctx)
        ELSE IF ~(to = st.issuer) THEN Abort(ctx)       \* only to issuer
        ELSE IF ~require_auth(auth, st.issuer) THEN Abort(ctx)
        ELSE IF ~asset_is_valid(quantity) THEN Abort(ctx)
        ELSE IF ~(quantity.amount > 0) THEN Abort(ctx)
        ELSE IF ~(quantity.symbol = st.supply.symbol) THEN Abort(ctx)
        ELSE IF ~(quantity.amount <= st.max_supply.amount - st.supply.amount)
             THEN Abort(ctx)
        ELSE LET modified ==
                     put_stat(ctx, sym.code,
                         currency_stats(asset(st.supply.amount + quantity.amount,
                                              st.supply.symbol),
                                        st.max_supply, st.issuer))
             IN  add_balance(modified, st.issuer, quantity, st.issuer, TRUE)

\* burn without require_auth( st.issuer )
burn_unauthorized(ctx, auth, from, quantity) ==
    LET sym == quantity.symbol
        st == find_stat(ctx, sym.code)
    IN  IF ~sym_is_valid(sym) THEN Abort(ctx)
        ELSE IF ~st.present THEN Abort(ctx)
        ELSE IF ~asset_is_valid(quantity) THEN Abort(ctx)
        ELSE IF ~(quantity.amount > 0) THEN Abort(ctx)
        ELSE IF ~(quantity.symbol = st.supply.symbol) THEN Abort(ctx)
        ELSE LET modified ==
                     put_stat(ctx, sym.code,
                         currency_stats(asset(st.supply.amount - quantity.amount,
                                              st.supply.symbol),
                                        st.max_supply, st.issuer))
             IN  sub_balance(modified, from, quantity)

burn(ctx, auth, from, quantity) ==
    LET sym == quantity.symbol
        st == find_stat(ctx, sym.code)
    IN  IF ~sym_is_valid(sym) THEN Abort(ctx)
        ELSE IF ~st.present THEN Abort(ctx)
        ELSE IF ~require_auth(auth, st.issuer) THEN Abort(ctx)
        ELSE IF ~asset_is_valid(quantity) THEN Abort(ctx)
        ELSE IF ~(quantity.amount > 0) THEN Abort(ctx)
        ELSE IF ~(quantity.symbol = st.supply.symbol) THEN Abort(ctx)
        ELSE LET modified ==
                     put_stat(ctx, sym.code,
                         currency_stats(asset(st.supply.amount - quantity.amount,
                                              st.supply.symbol),
                                        st.max_supply, st.issuer))
             IN  sub_balance(modified, from, quantity)

\* ------------------------------------------------------------- transfer
\* the checks transfer makes before it touches a balance record
transfer_checks(ctx, auth, from, to, quantity, memo) ==
    LET st == find_stat(ctx, quantity.symbol.code)
    IN  /\ from # to
        /\ require_auth(auth, from)
        /\ is_account(to)
        /\ st.present
        /\ asset_is_valid(quantity)
        /\ quantity.amount > 0
        /\ quantity.symbol = st.supply.symbol
        /\ memo <= MaxMemo

\* transfer that marks the record it creates for the recipient unclaimed
\* whoever sends
transfer_credits_unclaimed(ctx, auth, from, to, quantity, memo) ==
    IF ~transfer_checks(ctx, auth, from, to, quantity, memo) THEN Abort(ctx)
    ELSE LET st == find_stat(ctx, quantity.symbol.code)
             claimed == do_claim(ctx, auth, from, quantity.symbol, from)
         IN  IF ~claimed.ok THEN claimed
             ELSE LET debited == sub_balance(claimed, from, quantity)
             IN  IF ~debited.ok THEN debited
             ELSE add_balance(debited, to, quantity, from, FALSE)

\* transfer without the "cannot transfer to self" check
transfer_allows_self(ctx, auth, from, to, quantity, memo) ==
    LET st == find_stat(ctx, quantity.symbol.code)
    IN  IF ~require_auth(auth, from) THEN Abort(ctx)
        ELSE IF ~is_account(to) THEN Abort(ctx)
        ELSE IF ~st.present THEN Abort(ctx)
        ELSE IF ~asset_is_valid(quantity) THEN Abort(ctx)
        ELSE IF ~(quantity.amount > 0) THEN Abort(ctx)
        ELSE IF ~(quantity.symbol = st.supply.symbol) THEN Abort(ctx)
        ELSE IF ~(memo <= MaxMemo) THEN Abort(ctx)
        ELSE LET claimed == do_claim(ctx, auth, from, quantity.symbol, from)
             IN  IF ~claimed.ok THEN claimed
                 ELSE LET debited == sub_balance(claimed, from, quantity)
                 IN  IF ~debited.ok THEN debited
                 ELSE LET credited == add_balance(debited, to, quantity, from,
                                                  from # st.issuer)
                 IN  IF ~credited.ok THEN credited
                 ELSE IF from # st.issuer
                      THEN do_claim(credited, auth, to, quantity.symbol, from)
                      ELSE credited

\* transfer that debits the sender before it claims the sender's record
transfer_debit_first(ctx, auth, from, to, quantity, memo) ==
    IF ~transfer_checks(ctx, auth, from, to, quantity, memo) THEN Abort(ctx)
    ELSE LET st == find_stat(ctx, quantity.symbol.code)
             debited == sub_balance(ctx, from, quantity)
         IN  IF ~debited.ok THEN debited
             ELSE LET claimed ==
                          IF find_account(debited, from,
                                          quantity.symbol.code).present
                          THEN do_claim(debited, auth, from, quantity.symbol,
                                        from)
                          ELSE debited
             IN  IF ~claimed.ok THEN claimed
             ELSE LET credited == add_balance(claimed, to, quantity, from,
                                              from # st.issuer)
             IN  IF ~credited.ok THEN credited
             ELSE IF from # st.issuer
                  THEN do_claim(credited, auth, to, quantity.symbol, from)
                  ELSE credited

\* transfer that claims the recipient's record also when the issuer sends
transfer_claims_recipient(ctx, auth, from, to, quantity, memo) ==
    IF ~transfer_checks(ctx, auth, from, to, quantity, memo) THEN Abort(ctx)
    ELSE LET st == find_stat(ctx, quantity.symbol.code)
             claimed == do_claim(ctx, auth, from, quantity.symbol, from)
         IN  IF ~claimed.ok THEN claimed
             ELSE LET debited == sub_balance(claimed, from, quantity)
             IN  IF ~debited.ok THEN debited
             ELSE LET credited == add_balance(debited, to, quantity, from,
                                              from # st.issuer)
             IN  IF ~credited.ok THEN credited
             ELSE do_claim(credited, auth, to, quantity.symbol, from)

\* transfer without the closing claim of the recipient's record
transfer_no_recipient_claim(ctx, auth, from, to, quantity, memo) ==
    IF ~transfer_checks(ctx, auth, from, to, quantity, memo) THEN Abort(ctx)
    ELSE LET st == find_stat(ctx, quantity.symbol.code)
             claimed == do_claim(ctx, auth, from, quantity.symbol, from)
         IN  IF ~claimed.ok THEN claimed
             ELSE LET debited == sub_balance(claimed, from, quantity)
             IN  IF ~debited.ok THEN debited
             ELSE add_balance(debited, to, quantity, from, from # st.issuer)

transfer(ctx, auth, from, to, quantity, memo) ==
    LET sym == quantity.symbol.code
        st == find_stat(ctx, sym)
    IN  IF ~(from # to) THEN Abort(ctx)                 \* cannot transfer to self
        ELSE IF ~require_auth(auth, from) THEN Abort(ctx)
        ELSE IF ~is_account(to) THEN Abort(ctx)
        ELSE IF ~st.present THEN Abort(ctx)             \* statstable.get
        ELSE IF ~asset_is_valid(quantity) THEN Abort(ctx)
        ELSE IF ~(quantity.amount > 0) THEN Abort(ctx)
        ELSE IF ~(quantity.symbol = st.supply.symbol) THEN Abort(ctx)
        ELSE IF ~(memo <= MaxMemo) THEN Abort(ctx)
        ELSE LET claimed == do_claim(ctx, auth, from, quantity.symbol, from)
             IN  IF ~claimed.ok THEN claimed
                 ELSE LET debited == sub_balance(claimed, from, quantity)
                 IN  IF ~debited.ok THEN debited
                 ELSE LET credited == add_balance(debited, to, quantity, from,
                                                  from # st.issuer)
                 IN  IF ~credited.ok THEN credited
                 ELSE IF from # st.issuer
                      THEN do_claim(credited, auth, to, quantity.symbol, from)
                      ELSE credited

\* ------------------------------------------- the variant token/token.cpp
\* transfer of the variant: the text of transfer above, with eosio_assert
\* for check
variant_transfer(ctx, auth, from, to, quantity, memo) ==
    transfer(ctx, auth, from, to, quantity, memo)

\* issue of the variant that credits `to` itself instead of sending the
\* inline transfer
variant_issue_direct(ctx, auth, to, quantity, memo, linked) ==
    LET sym == quantity.symbol
        st == find_stat(ctx, sym.code)
    IN  IF ~sym_is_valid(sym) THEN Abort(ctx)
        ELSE IF ~(memo <= MaxMemo) THEN Abort(ctx)
        ELSE IF ~st.present THEN Abort(ctx)
        ELSE IF ~require_auth(auth, st.issuer) THEN Abort(ctx)
        ELSE IF ~asset_is_valid(quantity) THEN Abort(ctx)
        ELSE IF ~(quantity.amount > 0) THEN Abort(ctx)
        ELSE IF ~(quantity.symbol = st.supply.symbol) THEN Abort(ctx)
        ELSE IF ~(quantity.amount <= st.max_supply.amount - st.supply.amount)
             THEN Abort(ctx)
        ELSE IF ~is_account(to) THEN Abort(ctx)
        ELSE LET modified ==
                     put_stat(ctx, sym.code,
                         currency_stats(asset(st.supply.amount + quantity.amount,
                                              st.supply.symbol),
                                        st.max_supply, st.issuer))
             IN  add_balance(modified, to, quantity, st.issuer, TRUE)

\* issue of the variant: no check of `to`; when `to` is not the issuer the
\* action sends the inline action transfer( st.issuer, to, quantity, memo )
\* under the permission { st.issuer, "issuer" }, which runs after issue in
\* the same transaction.  `linked` says whether the host accepts that
\* permission for the contract's inline action; when it does not, the
\* whole transaction aborts.
variant_issue(ctx, auth, to, quantity, memo, linked) ==
    LET sym == quantity.symbol
        st == find_stat(ctx, sym.code)
    IN  IF ~sym_is_valid(sym) THEN Abort(ctx)
        ELSE IF ~(memo <= MaxMemo) THEN Abort(ctx)
        ELSE IF ~st.present THEN Abort(ctx)
        ELSE IF ~require_auth(auth, st.issuer) THEN Abort(ctx)
        ELSE IF ~asset_is_valid(quantity) THEN Abort(ctx)
        ELSE IF ~(quantity.amount > 0) THEN Abort(ctx)
        ELSE IF ~(quantity.symbol = st.supply.symbol) THEN Abort(ctx)
        ELSE IF ~(quantity.amount <= st.max_supply.amount - st.supply.amount)
             THEN Abort(ctx)
        ELSE LET modified ==
                     put_stat(ctx, sym.code,
                         currency_stats(asset(st.supply.amount + quantity.amount,
                                              st.supply.symbol),
                                        st.max_supply, st.issuer))
                 issued == add_balance(modified, st.issuer, quantity,
                                       st.issuer, TRUE)
             IN  IF ~issued.ok THEN issued
                 ELSE IF to # st.issuer
                      THEN IF ~linked THEN Abort(issued)
                           ELSE variant_transfer(issued, {st.issuer}, st.issuer,
                                                 to, quantity, memo)
                      ELSE issued

\* -------------------------------------------------------------- recover
\* recover that erases the owner's record without crediting the issuer
recover_no_credit(ctx, auth, owner, sym) ==
    LET st == find_stat(ctx, sym.code)
        owned == find_account(ctx, owner, sym.code)
    IN  IF ~st.present THEN Abort(ctx)
        ELSE IF ~require_auth(auth, st.issuer) THEN Abort(ctx)
        ELSE IF owned.present /\ ~owned.claimed
             THEN sub_balance(ctx, owner, owned.balance)
        ELSE ctx

\* recover that does not look at the claimed flag
recover_ignores_claimed(ctx, auth, owner, sym) ==
    LET st == find_stat(ctx, sym.code)
        owned == find_account(ctx, owner, sym.code)
    IN  IF ~st.present THEN Abort(ctx)
        ELSE IF ~require_auth(auth, st.issuer) THEN Abort(ctx)
        ELSE IF owned.present
             THEN LET debited == sub_balance(ctx, owner, owned.balance)
                  IN  IF ~debited.ok THEN debited
                      ELSE add_balance(debited, st.issuer, owned.balance,
                                       st.issuer, TRUE)
        ELSE ctx

\* recover that credits the issuer without debiting the owner
recover_no_debit(ctx, auth, owner, sym) ==
    LET st == find_stat(ctx, sym.code)
        owned == find_account(ctx, owner, sym.code)
    IN  IF ~st.present THEN Abort(ctx)
        ELSE IF ~require_auth(auth, st.issuer) THEN Abort(ctx)
        ELSE IF owned.present /\ ~owned.claimed
             THEN add_balance(ctx, st.issuer, owned.balance, st.issuer, TRUE)
        ELSE ctx

recover(ctx, auth, owner, sym) ==
    LET st == find_stat(ctx, sym.code)
        owned == find_account(ctx, owner, sym.code)
    IN  IF ~st.present THEN Abort(ctx)
        ELSE IF ~require_auth(auth, st.issuer) THEN Abort(ctx)
        ELSE IF owned.present /\ ~owned.claimed
             THEN LET debited == sub_balance(ctx, owner, owned.balance)
                  IN  IF ~debited.ok THEN debited
                      ELSE add_balance(debited, st.issuer, owned.balance,
                                       st.issuer, TRUE)
        ELSE ctx

\* ----------------------------------------------------------- open, close
\* close is declared an ACTION in token.hpp; EOSIO_DISPATCH of token.cpp does
\* not list it.  The model keeps it callable, which only adds behaviours.
open(ctx, auth, owner, symbol, ram_payer) ==
    LET st == find_stat(ctx, symbol.code)
        it == find_account(ctx, owner, symbol.code)
    IN  IF ~require_auth(auth, ram_payer) THEN Abort(ctx)
        ELSE IF ~is_account(owner) THEN Abort(ctx)
        ELSE IF ~st.present THEN Abort(ctx)             \* symbol does not exist
        ELSE IF ~(st.supply.symbol = symbol) THEN Abort(ctx)
        ELSE IF ~it.present
             THEN put_account(ctx, owner, symbol.code,
                              account(asset(0, symbol), TRUE, ram_payer))
        ELSE ctx

close(ctx, auth, owner, symbol) ==
    LET it == find_account(ctx, owner, symbol.code)
    IN  IF ~require_auth(auth, owner) THEN Abort(ctx)
        ELSE IF ~it.present THEN Abort(ctx)
        ELSE IF ~(it.balance.amount = 0) THEN Abort(ctx)
        ELSE put_account(ctx, owner, symbol.code, NoRow)

\* ------------------------------------------------------- the transaction
\* the host commits the writes of an action that ran to its end; an aborted
\* action leaves no trace: its writes are dropped
Applied(ctx, res) == IF res.ok THEN res ELSE ctx

Commit(res, op) ==
    /\ stat' = Applied(Ledger, res).stat
    /\ accounts' = Applied(Ledger, res).accounts
    /\ last' = IF res.ok THEN op ELSE last

Init ==
    /\ stat = [c \in Codes |-> NoRow]
    /\ accounts = [o \in Accounts |-> [c \in Codes |-> NoRow]]
    /\ last = "none"

Create ==
    \E auth \in AuthSets, issuer \in Accounts, amount \in Amounts,
       symbol \in {Tok, BadSymbol} :
        Commit(create(Ledger, auth, issuer, asset(amount, symbol)), "create")

Update ==
    \E auth \in AuthSets, issuer \in Accounts, maximum_supply \in Quantities :
        Commit(update(Ledger, auth, issuer, maximum_supply), "update")

Issue ==
    \E auth \in AuthSets, to \in Accounts, p \in Payloads :
        Commit(issue(Ledger, auth, to, p[1], p[2]), "issue")

Burn ==
    \E auth \in AuthSets, from \in Names, quantity \in Quantities :
        Commit(burn(Ledger, auth, from, quantity), "burn")

Transfer ==
    \E auth \in AuthSets, from \in Accounts, to \in Names, p \in Payloads :
        Commit(transfer(Ledger, auth, from, to, p[1], p[2]), "transfer")

Claim ==
    \E auth \in AuthSets, owner \in Names, sym \in Symbols :
        Commit(claim(Ledger, auth, owner, sym), "claim")

Recover ==
    \E auth \in AuthSets, owner \in Names, sym \in Symbols :
        Commit(recover(Ledger, auth, owner, sym), "recover")

Open ==
    \E auth \in AuthSets, owner \in Names, symbol \in Symbols,
       ram_payer \in Accounts :
        Commit(open(Ledger, auth, owner, symbol, ram_payer), "open")

Close ==
    \E auth \in AuthSets, owner \in Names, symbol \in Symbols :
        Commit(close(Ledger, auth, owner, symbol), "close")

Next ==
    \/ Create
    \/ Update
    \/ Issue
    \/ Burn
    \/ Transfer
    \/ Claim
    \/ Recover
    \/ Open
    \/ Close

Spec == Init /\ [][Next]_vars


\* issue of the variant token/token.cpp
IssueVariant ==
    \E auth \in AuthSets, to \in Names, p \in Payloads, linked \in BOOLEAN :
        Commit(variant_issue(Ledger, auth, to, p[1], p[2], linked), "issue")

\* the actions the variant dispatches: it has no open and no close
NextVariant ==
    \/ Create
    \/ Update
    \/ IssueVariant
    \/ Burn
    \/ Transfer
    \/ Claim
    \/ Recover

SpecVariant == Init /\ [][NextVariant]_vars

\* ===================================================================
\* Properties
\* ===================================================================
RECURSIVE SumOver(_, _, _)
\* sum of the balance amounts the owners in S hold of a symbol code
SumOver(ctx, S, code) ==
    IF S = {} THEN 0
    ELSE LET o == CHOOSE x \in S : TRUE
             row == find_account(ctx, o, code)
         IN  (IF row.present THEN row.balance.amount ELSE 0)
                 + SumOver(ctx, S \ {o}, code)

\* amount an owner holds of a symbol code, 0 without a record
Held(ctx, owner, code) ==
    LET row == find_account(ctx, owner, code)
    IN  IF row.present THEN row.balance.amount ELSE 0

\* supply of a symbol code, 0 without a registry entry
Supplied(ctx, code) ==
    LET st == find_stat(ctx, code)
    IN  IF st.present THEN st.supply.amount ELSE 0

\* C1 -- Conservation: in every reachable state, for every symbol code, the
\* amounts of all balance records of the code add up to the supply of the
\* code's registry entry (and to 0 while the code has no registry entry).
C1_Conservation ==
    \A code \in Codes :
        SumOver(Ledger, Accounts, code) = Supplied(Ledger, code)

\* a recover has just moved an unclaimed balance to the issuer while another
\* owner still holds tokens
C1_Witness ==
    /\ last = "recover"
    /\ \E code \in Codes :
        /\ Supplied(Ledger, code) = MaxAmount
        /\ \E o \in Accounts :
            /\ o # stat[code].issuer
            /\ Held(Ledger, o, code) > 0
            /\ Held(Ledger, stat[code].issuer, code) > 0

\* C2 -- Supply bounds: in every reachable state every registry entry has
\* 0 <= supply.amount <= max_supply.amount.
C2_SupplyBounds ==
    \A code \in Codes :
        stat[code].present =>
            /\ 0 <= stat[code].supply.amount
            /\ stat[code].supply.amount <= stat[code].max_supply.amount

\* an update has just been committed and leaves max_supply, below the
\* largest amount, equal to a positive supply: no lower max_supply passes
C2_Witness ==
    /\ last = "update"
    /\ \E code \in Codes :
        /\ stat[code].present
        /\ stat[code].supply.amount > 0
        /\ stat[code].supply.amount = stat[code].max_supply.amount
        /\ stat[code].max_supply.amount < MaxAmount

\* the quantity exceeds what `from` holds, or `from` has no balance record
Overdraft(from, quantity) ==
    LET row == find_account(Ledger, from, quantity.symbol.code)
    IN  ~row.present \/ quantity.amount > row.balance.amount

\* C3 -- No overdraft, no partial effect: a burn or transfer whose quantity
\* exceeds the balance of `from` (or whose `from` has no balance record)
\* fails and the ledger after it is the ledger before it; no balance record
\* holds a negative amount.
C3_NoOverdraft ==
    /\ \A o \in Accounts, code \in Codes :
        accounts[o][code].present => accounts[o][code].balance.amount >= 0
    /\ \A auth \in AuthSets, from \in Names, quantity \in Quantities :
        Overdraft(from, quantity) =>
            LET res == burn(Ledger, auth, from, quantity)
            IN  ~res.ok /\ Applied(Ledger, res) = Ledger
    /\ \A auth \in AuthSets, from \in Accounts, to \in Names, p \in Payloads :
        Overdraft(from, p[1]) =>
            LET res == transfer(Ledger, auth, from, to, p[1], p[2])
            IN  ~res.ok /\ Applied(Ledger, res) = Ledger

\* an overdrawing burn has decremented the supply, and an overdrawing
\* transfer has claimed the sender's record, before the debit fails
C3_Witness ==
    /\ \E auth \in AuthSets, from \in Accounts, quantity \in Quantities :
        LET res == burn(Ledger, auth, from, quantity)
        IN  /\ Overdraft(from, quantity)
            /\ find_account(Ledger, from, quantity.symbol.code).present
            /\ ~res.ok
            /\ res.stat # stat
    /\ \E auth \in AuthSets, from \in Accounts, to \in Accounts, p \in Payloads :
        LET res == transfer(Ledger, auth, from, to, p[1], p[2])
        IN  /\ Overdraft(from, p[1])
            /\ ~res.ok
            /\ res.accounts # accounts

\* C4 -- Transfer postcondition: after a successful transfer(from, to, q) the
\* balance of `to` is its previous balance (0 without a record) plus q, the
\* balance of `from` is its previous balance minus q, `from` has no record
\* (get_balance fails) when that difference is zero, and the registry and
\* the records of every other owner are unchanged.
C4_TransferPost ==
    \A auth \in AuthSets, from \in Accounts, to \in Names, p \in Payloads :
        LET code == p[1].symbol.code
            res == transfer(Ledger, auth, from, to, p[1], p[2])
        IN  res.ok =>
                /\ get_balance(res, to, code).ok
                /\ get_balance(res, to, code).value.amount
                       = Held(Ledger, to, code) + p[1].amount
                /\ get_balance(Ledger, from, code).ok
                /\ Held(res, from, code)
                       = Held(Ledger, from, code) - p[1].amount
                /\ get_balance(res, from, code).ok
                       <=> Held(Ledger, from, code) > p[1].amount
                /\ res.stat = stat
                /\ \A o \in Accounts \ {from, to} :
                       res.accounts[o] = accounts[o]

\* a transfer of the sender's whole balance to an owner that holds a record,
\* while a third owner holds a record too
C4_Witness ==
    \E auth \in AuthSets, from \in Accounts, to \in Accounts, p \in Payloads :
        LET code == p[1].symbol.code
            res == transfer(Ledger, auth, from, to, p[1], p[2])
        IN  /\ res.ok
            /\ Held(Ledger, from, code) = p[1].amount
            /\ Held(Ledger, to, code) > 0
            /\ ~get_balance(res, from, code).ok
            /\ \E o \in Accounts \ {from, to} : accounts[o][code].present

\* issue to an account that is not the issuer of the symbol is rejected
C5_Rejected ==
    \A auth \in AuthSets, to \in Accounts, p \in Payloads :
        LET st == find_stat(Ledger, p[1].symbol.code)
            res == issue(Ledger, auth, to, p[1], p[2])
        IN  (st.present /\ to # st.issuer) =>
                ~res.ok /\ Applied(Ledger, res) = Ledger

\* a step that raises the balance of an account other than the issuer is a
\* transfer
C5_OnlyByTransfer ==
    \A o \in Accounts, code \in Codes :
        (/\ stat[code].present
         /\ o # stat[code].issuer
         /\ Held(Ledger', o, code) > Held(Ledger, o, code))
            => last' = "transfer"

\* C5 -- Issue only to the issuer: issue(to, quantity, memo) with `to`
\* different from the registry entry's issuer is rejected and leaves supply
\* and balances unchanged; the balance of an account other than the issuer
\* grows only in a transfer.
C5_IssueOnlyToIssuer == []C5_Rejected /\ [][C5_OnlyByTransfer]_vars

\* the issuer may issue to itself but not to another account, and a
\* transfer has brought tokens to an account other than the issuer
C5_Witness ==
    /\ last = "transfer"
    /\ \E code \in Codes, o \in Accounts :
        /\ stat[code].present
        /\ o # stat[code].issuer
        /\ Held(Ledger, o, code) > 0
        /\ issue(Ledger, {stat[code].issuer}, stat[code].issuer,
                 asset(1, stat[code].supply.symbol), MaxMemo).ok
        /\ ~issue(Ledger, {stat[code].issuer}, o,
                  asset(1, stat[code].supply.symbol), MaxMemo).ok

\* C6 -- Issue marks the issuer's record claimed: after every successful
\* issue the supply has grown by exactly the quantity and the issuer's
\* balance record has claimed = true and is billed to the issuer.
C6_IssueClaimsIssuer ==
    \A auth \in AuthSets, to \in Accounts, p \in Payloads :
        LET code == p[1].symbol.code
            st == find_stat(Ledger, code)
            res == issue(Ledger, auth, to, p[1], p[2])
        IN  res.ok =>
                /\ Supplied(res, code) = Supplied(Ledger, code) + p[1].amount
                /\ find_account(res, st.issuer, code).present
                /\ find_account(res, st.issuer, code).claimed
                /\ find_account(res, st.issuer, code).payer = st.issuer

\* C7 -- Issuer-paid onboarding: after a successful transfer whose `from` is
\* the symbol's issuer, a recipient that had no record has a record with
\* claimed = false billed to the issuer, and a recipient that had a record
\* keeps its claimed flag and its payer.
C7_IssuerPaidOnboarding ==
    \A auth \in AuthSets, from \in Accounts, to \in Names, p \in Payloads :
        LET code == p[1].symbol.code
            st == find_stat(Ledger, code)
            old == find_account(Ledger, to, code)
            res == transfer(Ledger, auth, from, to, p[1], p[2])
            new == find_account(res, to, code)
        IN  (res.ok /\ from = st.issuer) =>
                /\ new.present
                /\ ~old.present => (~new.claimed /\ new.payer = st.issuer)
                /\ old.present =>
                       (new.claimed = old.claimed /\ new.payer = old.payer)

\* the issuer has just sent its whole balance to an account that had no
\* record: the record is unclaimed and billed to the issuer
C7_Witness ==
    /\ last = "transfer"
    /\ \E code \in Codes, o \in Accounts :
        /\ stat[code].present
        /\ o # stat[code].issuer
        /\ accounts[o][code].present
        /\ ~accounts[o][code].claimed
        /\ accounts[o][code].payer = stat[code].issuer
        /\ accounts[o][code].balance.amount = stat[code].supply.amount
        /\ ~accounts[stat[code].issuer][code].present

\* C8 -- Recipient force-claim: after a successful transfer whose `from` is
\* not the symbol's issuer the record of `to` has claimed = true, whether
\* the transfer created it or it existed unclaimed before.
C8_RecipientForceClaim ==
    \A auth \in AuthSets, from \in Accounts, to \in Names, p \in Payloads :
        LET code == p[1].symbol.code
            st == find_stat(Ledger, code)
            res == transfer(Ledger, auth, from, to, p[1], p[2])
            new == find_account(res, to, code)
        IN  (res.ok /\ from # st.issuer) => (new.present /\ new.claimed)

\* an account that is not the issuer sends to an owner whose record is
\* unclaimed, and the transfer succeeds
C8_Witness ==
    \E auth \in AuthSets, from \in Accounts, to \in Accounts, p \in Payloads :
        LET code == p[1].symbol.code
            st == find_stat(Ledger, code)
            old == find_account(Ledger, to, code)
            res == transfer(Ledger, auth, from, to, p[1], p[2])
        IN  /\ res.ok
            /\ from # st.issuer
            /\ old.present
            /\ ~old.claimed
            /\ find_account(res, to, code).claimed

\* C9 -- Claim effect: claim(owner, symbol) authorized by owner on a record
\* with claimed = false leaves the record with the same balance,
\* claimed = true and billed to owner, and the registry and every other
\* record unchanged; claim on an owner without a record fails with the
\* state unchanged.
C9_ClaimEffect ==
    \A auth \in AuthSets, owner \in Names, sym \in Symbols :
        LET old == find_account(Ledger, owner, sym.code)
            res == claim(Ledger, auth, owner, sym)
        IN  /\ (old.present /\ ~old.claimed /\ owner \in auth) =>
                   /\ res.ok
                   /\ find_account(res, owner, sym.code)
                          = account(old.balance, TRUE, owner)
                   /\ res.stat = stat
                   /\ \A o \in Accounts \ {owner} :
                          res.accounts[o] = accounts[o]
            /\ ~old.present => (~res.ok /\ Applied(Ledger, res) = Ledger)

\* an owner claims its unclaimed record of a positive balance, billed to the
\* issuer until then
C9_Witness ==
    \E owner \in Accounts, code \in Codes :
        LET old == find_account(Ledger, owner, code)
            res == claim(Ledger, {owner}, owner, stat[code].supply.symbol)
        IN  /\ stat[code].present
            /\ old.present
            /\ ~old.claimed
            /\ old.payer # owner
            /\ old.balance.amount > 0
            /\ res.ok
            /\ find_account(res, owner, code).payer = owner

\* C10 -- Idempotent claim: claim(owner, symbol) on a record that has
\* claimed = true succeeds and leaves the whole state unchanged, and in
\* every reachable state a second claim after a successful claim leaves
\* the state the first claim produced.
C10_IdempotentClaim ==
    \A auth \in AuthSets, owner \in Names, sym \in Symbols :
        LET old == find_account(Ledger, owner, sym.code)
            once == claim(Ledger, auth, owner, sym)
        IN  /\ (old.present /\ old.claimed /\ owner \in auth) =>
                   (once.ok /\ once = Ledger)
            /\ once.ok => claim(once, auth, owner, sym) = once

\* a claim has just been committed, and an owner claims a claimed record
\* that is billed to another account
C10_Witness ==
    /\ last = "claim"
    /\ \E owner \in Accounts, code \in Codes :
        LET old == find_account(Ledger, owner, code)
        IN  /\ old.present
            /\ old.claimed
            /\ old.payer # owner
            /\ claim(Ledger, {owner}, owner, old.balance.symbol).ok

\* C11 -- Recover effect: after a successful recover(owner, symbol)
\* authorized by the symbol's issuer, where owner is not the issuer and
\* owner's record has claimed = false, owner has no balance record, the
\* issuer's balance has grown by exactly owner's former balance and the
\* registry supply is unchanged.
C11_RecoverEffect ==
    \A auth \in AuthSets, owner \in Names, sym \in Symbols :
        LET st == find_stat(Ledger, sym.code)
            old == find_account(Ledger, owner, sym.code)
            res == recover(Ledger, auth, owner, sym)
        IN  (/\ res.ok
             /\ owner # st.issuer
             /\ old.present
             /\ ~old.claimed) =>
                /\ st.issuer \in auth
                /\ ~find_account(res, owner, sym.code).present
                /\ ~get_balance(res, owner, sym.code).ok
                /\ Held(res, st.issuer, sym.code)
                       = Held(Ledger, st.issuer, sym.code) + old.balance.amount
                /\ find_account(res, st.issuer, sym.code).present
                /\ res.stat = stat

\* a recover has just emptied an unclaimed record into the issuer's balance,
\* and another unclaimed positive balance is still there to recover
C11_Witness ==
    /\ last = "recover"
    /\ \E owner \in Accounts, code \in Codes :
        LET st == find_stat(Ledger, code)
            old == find_account(Ledger, owner, code)
            res == recover(Ledger, {st.issuer}, owner, st.supply.symbol)
        IN  /\ st.present
            /\ owner # st.issuer
            /\ old.present
            /\ ~old.claimed
            /\ old.balance.amount > 0
            /\ Held(Ledger, st.issuer, code) > 0
            /\ res.ok
            /\ Held(res, st.issuer, code) = st.supply.amount

\* C12 -- Recover is a silent no-op on claimed or missing records:
\* recover(owner, symbol) authorized by the issuer, when owner has no
\* balance record or the record has claimed = true, succeeds and leaves
\* the entire state unchanged; recover never reduces a claimed balance.
C12_RecoverNoOp ==
    \A auth \in AuthSets, owner \in Names, sym \in Symbols :
        LET st == find_stat(Ledger, sym.code)
            old == find_account(Ledger, owner, sym.code)
            res == recover(Ledger, auth, owner, sym)
        IN  /\ (/\ st.present
                /\ st.issuer \in auth
                /\ (~old.present \/ old.claimed)) =>
                   (res.ok /\ res = Ledger)
            /\ res.ok =>
                   \A o \in Accounts :
                       LET row == find_account(Ledger, o, sym.code)
                       IN  (row.present /\ row.claimed) =>
                               Held(res, o, sym.code) >= row.balance.amount

\* the issuer recovers from an owner that holds a claimed positive balance
\* and from an owner without a record; both calls succeed
C12_Witness ==
    \E code \in Codes, owner \in Accounts, other \in Accounts :
        LET st == find_stat(Ledger, code)
            old == find_account(Ledger, owner, code)
        IN  /\ st.present
            /\ owner # st.issuer
            /\ old.present
            /\ old.claimed
            /\ old.balance.amount > 0
            /\ ~find_account(Ledger, other, code).present
            /\ recover(Ledger, {st.issuer}, owner, st.supply.symbol).ok
            /\ recover(Ledger, {st.issuer}, other, st.supply.symbol).ok

C13_FlagStep(o, code) ==
    LET old == accounts[o][code]
        new == accounts'[o][code]
    IN  /\ (new.present /\ ~new.claimed /\ ~old.present) =>
               /\ last' = "transfer"
               /\ stat[code].present
               /\ o # stat[code].issuer
               /\ new.payer = stat[code].issuer
        /\ (new.present /\ ~new.claimed /\ old.present) => ~old.claimed
        /\ (old.present /\ ~old.claimed /\ new.present /\ new.claimed) =>
               /\ last' \in {"claim", "transfer", "recover"}
               /\ new.payer \in Accounts
               /\ last' = "claim" => new.payer = o

C14_SelfTransferRejected ==
    \A auth \in AuthSets, A \in Names, p \in Payloads :
        LET res == transfer(Ledger, auth, A, A, p[1], p[2])
        IN  ~res.ok /\ Applied(Ledger, res) = Ledger

\* an account that could send a quantity to another account, with its own
\* authority, cannot send it to itself
C14_Witness ==
    \E A \in Accounts, to \in Accounts, p \in Payloads :
        /\ to # A
        /\ transfer(Ledger, {A}, A, to, p[1], p[2]).ok
        /\ Held(Ledger, A, p[1].symbol.code) > p[1].amount
        /\ ~transfer(Ledger, {A}, A, A, p[1], p[2]).ok

\* create on a symbol code that has a registry entry fails; transfer,
\* claim, recover, open and close leave the stats table as it is
C15_Handlers ==
    /\ \A auth \in AuthSets, issuer \in Accounts, maximum_supply \in Quantities :
        LET res == create(Ledger, auth, issuer, maximum_supply)
        IN  find_stat(Ledger, maximum_supply.symbol.code).present =>
                ~res.ok /\ Applied(Ledger, res) = Ledger
    /\ \A auth \in AuthSets, from \in Accounts, to \in Names, p \in Payloads :
        Applied(Ledger, transfer(Ledger, auth, from, to, p[1], p[2])).stat = stat
    /\ \A auth \in AuthSets, owner \in Names, sym \in Symbols :
        /\ Applied(Ledger, claim(Ledger, auth, owner, sym)).stat = stat
        /\ Applied(Ledger, recover(Ledger, auth, owner, sym)).stat = stat
        /\ Applied(Ledger, close(Ledger, auth, owner, sym)).stat = stat
        /\ \A ram_payer \in Accounts :
            Applied(Ledger, open(Ledger, auth, owner, sym, ram_payer)).stat = stat

\* what a step does to the registry entry of a symbol code
C15_RegistryStep(code) ==
    LET old == stat[code]
        new == stat'[code]
    IN  /\ (~old.present /\ new.present) =>
               (last' = "create" /\ new.supply.amount = 0)
        /\ old.present =>
               /\ new.present
               /\ new.supply.symbol = old.supply.symbol
               /\ (new.issuer # old.issuer \/ new.max_supply # old.max_supply)
                      => (last' = "update" /\ new.supply = old.supply)
               /\ new.supply # old.supply =>
                      /\ last' \in {"issue", "burn"}
                      /\ new.issuer = old.issuer
                      /\ new.max_supply = old.max_supply

\* C15 -- Registry frame: a registry entry, once created, is never deleted
\* and never re-created (create on an existing symbol code fails); its
\* issuer and max_supply change only in update and its supply only in
\* issue and burn; transfer, claim, recover, open and close leave every
\* registry entry unchanged.
C15_RegistryFrame ==
    []C15_Handlers /\ [][\A code \in Codes : C15_RegistryStep(code)]_vars

\* an update has just been committed on an entry with a positive supply
\* whose issuer is not the contract and holds no record, and a create by
\* the contract on the same code fails
C15_Witness ==
    /\ last = "update"
    /\ \E code \in Codes :
        /\ stat[code].present
        /\ stat[code].supply.amount > 0
        /\ stat[code].issuer # Self
        /\ ~find_account(Ledger, stat[code].issuer, code).present
        /\ ~create(Ledger, {Self}, Self, asset(MaxAmount, Tok)).ok

\* C16 -- Storage payer changes only by claiming: a debit that leaves a
\* positive balance (partial burn, or partial transfer from a record that
\* is already claimed) and a credit to an existing record that the claim
\* routine does not re-create leave the record billed to the account it
\* was billed to.
C16_PayerOnlyByClaim ==
    /\ \A auth \in AuthSets, from \in Names, quantity \in Quantities :
        LET code == quantity.symbol.code
            old == find_account(Ledger, from, code)
            res == burn(Ledger, auth, from, quantity)
            new == find_account(res, from, code)
        IN  (res.ok /\ new.present) => new.payer = old.payer
    /\ \A auth \in AuthSets, from \in Accounts, to \in Names, p \in Payloads :
        LET code == p[1].symbol.code
            st == find_stat(Ledger, code)
            oldFrom == find_account(Ledger, from, code)
            oldTo == find_account(Ledger, to, code)
            res == transfer(Ledger, auth, from, to, p[1], p[2])
            newFrom == find_account(res, from, code)
            newTo == find_account(res, to, code)
        IN  res.ok =>
                /\ (oldFrom.claimed /\ newFrom.present) =>
                       newFrom.payer = oldFrom.payer
                /\ (oldTo.present /\ (oldTo.claimed \/ from = st.issuer)) =>
                       newTo.payer = oldTo.payer

\* C17 -- Sender force-claim: after every successful transfer that leaves
\* `from` with a positive balance the record of `from` has claimed = true
\* and is billed to `from`, whatever its flag and payer were before; the
\* claim of the sender's record comes before the debit: a transfer from an
\* account without a record fails in the claim step, and a transfer that
\* overdraws an unclaimed record has claimed it when the debit fails.
C17_SenderForceClaim ==
    \A auth \in AuthSets, from \in Accounts, to \in Names, p \in Payloads :
        LET code == p[1].symbol.code
            old == find_account(Ledger, from, code)
            res == transfer(Ledger, auth, from, to, p[1], p[2])
            new == find_account(res, from, code)
        IN  /\ (res.ok /\ Held(res, from, code) > 0) =>
                   (new.present /\ new.claimed /\ new.payer = from)
            /\ (transfer_checks(Ledger, auth, from, to, p[1], p[2])
                    /\ ~old.present) =>
                   /\ ~do_claim(Ledger, auth, from, p[1].symbol, from).ok
                   /\ ~res.ok
                   /\ res.accounts = accounts
            /\ (transfer_checks(Ledger, auth, from, to, p[1], p[2])
                    /\ old.present /\ ~old.claimed
                    /\ p[1].amount > old.balance.amount) =>
                   /\ ~res.ok
                   /\ new = account(old.balance, TRUE, from)

\* a partial transfer from a claimed record billed to another account
\* succeeds and bills the sender, and a transfer by an account without a
\* record passes every check and fails in the claim step
C17_Witness ==
    \E code \in Codes, b \in Accounts, c \in Accounts :
        LET q == asset(1, stat[code].supply.symbol)
            rb == find_account(Ledger, b, code)
            res == transfer(Ledger, {b}, b, c, q, MaxMemo)
        IN  /\ stat[code].present
            /\ b # c
            /\ rb.present /\ rb.claimed /\ rb.payer # b
            /\ rb.balance.amount > 1
            /\ res.ok
            /\ find_account(res, b, code).payer = b
            /\ ~find_account(Ledger, c, code).present
            /\ transfer_checks(Ledger, {c}, c, b, q, MaxMemo)
            /\ ~do_claim(Ledger, {c}, c, q.symbol, c).ok

\* the results of every call of every action pushed with an authorization
Outcomes(auth) ==
    {create(Ledger, auth, i, m) : i \in Accounts, m \in Quantities}
        \cup {update(Ledger, auth, i, m) : i \in Accounts, m \in Quantities}
        \cup {issue(Ledger, auth, t, p[1], p[2]) :
                  t \in Accounts, p \in Payloads}
        \cup {burn(Ledger, auth, f, q) : f \in Names, q \in Quantities}
        \cup {transfer(Ledger, auth, ft[1], ft[2], p[1], p[2]) :
                  ft \in Accounts \X Names, p \in Payloads}
        \cup {claim(Ledger, auth, o, s) : o \in Names, s \in Symbols}
        \cup {recover(Ledger, auth, o, s) : o \in Names, s \in Symbols}
        \cup {open(Ledger, auth, os[1], os[2], r) :
                  os \in Names \X Symbols, r \in Accounts}
        \cup {close(Ledger, auth, o, s) : o \in Names, s \in Symbols}

\* C18 -- Balance protection by authorization: an action that lowers the
\* balance of an owner X (or erases X's nonzero record) carries the
\* authority of X or of the symbol's issuer, and an action that changes a
\* registry entry's issuer or max_supply carries the contract's authority.
C18_BalanceProtection ==
    \A auth \in AuthSets :
        \A res \in Outcomes(auth) :
            res.ok =>
                \A code \in Codes :
                    /\ \A X \in Accounts :
                        Held(res, X, code) < Held(Ledger, X, code) =>
                            (X \in auth \/ stat[code].issuer \in auth)
                    /\ (/\ stat[code].present
                        /\ \/ res.stat[code].issuer # stat[code].issuer
                           \/ res.stat[code].max_supply # stat[code].max_supply)
                           => Self \in auth

\* the issuer burns part of the balance of another owner, the owner sends
\* part of it, and a third account can do neither
C18_Witness ==
    \E code \in Codes, X \in Accounts, third \in Accounts :
        LET q == asset(1, stat[code].supply.symbol)
            issuer == stat[code].issuer
        IN  /\ stat[code].present
            /\ X # issuer /\ third # issuer /\ third # X
            /\ Held(Ledger, X, code) > 1
            /\ burn(Ledger, {issuer}, X, q).ok
            /\ Held(burn(Ledger, {issuer}, X, q), X, code)
                   < Held(Ledger, X, code)
            /\ transfer(Ledger, {X}, X, third, q, MaxMemo).ok
            /\ ~burn(Ledger, {third}, X, q).ok
            /\ ~transfer(Ledger, {third}, X, third, q, MaxMemo).ok

\* no balance record has amount 0 together with claimed = false
C19_NoUnclaimedZero ==
    \A o \in Accounts, code \in Codes :
        (accounts[o][code].present /\ accounts[o][code].balance.amount = 0)
            => accounts[o][code].claimed

\* a record with amount 0 appears only where open creates it
C19_ZeroStep(o, code) ==
    LET old == accounts[o][code]
        new == accounts'[o][code]
    IN  (/\ new.present
         /\ new.balance.amount = 0
         /\ ~(old.present /\ old.balance.amount = 0))
            => (last' = "open" /\ ~old.present)

\* C19 -- No unclaimed zero record: in every reachable state no balance
\* record has amount 0 with claimed = false; a record with amount 0 comes
\* only from open, and a debit that brings a balance to exactly zero
\* removes the record instead of leaving a zero row.
C19_ZeroRecords ==
    []C19_NoUnclaimedZero
        /\ [][\A o \in Accounts, code \in Codes : C19_ZeroStep(o, code)]_vars

\* a transfer has just debited the issuer's whole balance, which removed
\* the issuer's record, while an opened record with amount 0 is there
C19_Witness ==
    /\ last = "transfer"
    /\ \E code \in Codes, z \in Accounts :
        /\ stat[code].present
        /\ stat[code].supply.amount > 0
        /\ ~accounts[stat[code].issuer][code].present
        /\ accounts[z][code].present
        /\ accounts[z][code].balance.amount = 0
        /\ accounts[z][code].payer # z

\* C20 -- Variant equivalence of issue: a successful issue(to, q, memo) of
\* the variant with `to` different from the issuer ends in the ledger in
\* which issue(issuer, q, memo) followed by transfer(issuer, to, q, memo)
\* of token.cpp ends from the same state, and for `to` equal to the issuer
\* the two issues end in the same ledger.
C20_VariantEquivalence ==
    \A auth \in AuthSets, to \in Names, p \in Payloads, linked \in BOOLEAN :
        LET st == find_stat(Ledger, p[1].symbol.code)
            v == variant_issue(Ledger, auth, to, p[1], p[2], linked)
        IN  /\ (v.ok /\ to # st.issuer) =>
                   LET a == issue(Ledger, auth, st.issuer, p[1], p[2])
                       b == transfer(a, {st.issuer}, st.issuer, to, p[1], p[2])
                   IN  a.ok /\ b.ok /\ b = v
            /\ (st.present /\ to = st.issuer) =>
                   Applied(Ledger, v)
                       = Applied(Ledger, issue(Ledger, auth, to, p[1], p[2]))

\* the variant's issue to an account other than the issuer has just been
\* committed: the supply is positive, the issuer holds no record and the
\* recipient's record is unclaimed and billed to the issuer
C20_Witness ==
    /\ last = "issue"
    /\ \E code \in Codes, to \in Accounts :
        /\ stat[code].present
        /\ to # stat[code].issuer
        /\ ~accounts[stat[code].issuer][code].present
        /\ accounts[to][code].present
        /\ ~accounts[to][code].claimed
        /\ accounts[to][code].payer = stat[code].issuer
        /\ accounts[to][code].balance.amount = stat[code].supply.amount

====
